---- MODULE Spec2Model ----
(***************************************************************************)
(* State-machine model of fetch_tmdb.py: the resumable, quota-bounded      *)
(* sweep of main(), the retry loop of safe_request, the chunked retry loop *)
(* of safe_upsert, and the fetch_progress checkpoint row.                  *)
(*                                                                         *)
(* The process is sequential; pc is the position of its single thread of   *)
(* control.  The environment (TMDb, Supabase) answers each call            *)
(* nondeterministically from small sets.  A 200 answer is taken to carry a *)
(* parseable JSON body and integer headers, and writes of the              *)
(* fetch_progress row are taken to succeed.                                *)
(***************************************************************************)
EXTENDS Integers, Sequences, FiniteSets

----------------------------------------------------------------------------
(* Program constants *)
MAX_RETRIES == 5
RETRY_DELAY == 5
BATCH_SIZE == 50
END_YEAR == 2024
SENTINEL_YEAR == 2025
regions == <<"US", "IN">>

(* Bounds of the model *)
YearSpan == 2          \* stored checkpoints lie in the last YearSpan years
MaxPages == 2          \* largest total_pages a listing reports
MaxItems == 2          \* most items on one listing page
MaxLen == 4            \* longest record list of a direct safe_upsert call
MaxBatch == 2          \* largest batch_size of a direct safe_upsert call

----------------------------------------------------------------------------
None == <<>>           \* Python None / an absent header: the empty tuple
Some(x) == <<x>>
Val(o) == o[1]

Ids == 1..MaxItems
StartYears == (END_YEAR - YearSpan)..(END_YEAR - 1)

RegionIndex(r) == CHOOSE i \in 1..Len(regions) : regions[i] = r

\* (y1, r1) comes before (y2, r2) in the traversal order of main's two loops
PairBefore(y1, r1, y2, r2) ==
    \/ y1 < y2
    \/ y1 = y2 /\ RegionIndex(r1) < RegionIndex(r2)

Min(a, b) == IF a < b THEN a ELSE b

----------------------------------------------------------------------------
VARIABLES
    \* Supabase tables
    progress,            \* the fetch_progress row with id 1
    movies,              \* tmdb_ids present in the movies table
    \* module globals
    remaining_requests,
    daily_limit,
    \* control
    pc,
    \* locals of main
    current_year, current_region, current_page,
    year, region, page,
    results,             \* data.get("results", [])
    total_pages,         \* data.get("total_pages", 1) once read, else 0
    idx,                 \* position of the for loop in results
    records_to_upsert,
    okItems,             \* ids of the page's items whose details call answered
    \* locals of safe_request
    url, retries, ret,
    \* parameters and locals of safe_upsert
    records, batch_size, start, attempt, caller,
    \* observation of the run (not read by the program)
    ck0,                 \* checkpoint loaded by get_progress
    firstList,           \* page of the first fetch_movies call for ck0's pair
    seenExhausted,       \* remaining_requests <= 1 was observed in this run
    committed,           \* pages of (year, region) fully enriched and persisted
    visited,             \* pairs fetch_movies was called for in this run
    enriched,            \* ids whose details call answered (runs from ScenarioRow)
    lostIds,             \* ids of the chunks given up on (runs from ScenarioRow)
    lastOp,              \* latest outside operation: load, get, upsert or save
    hdrs,                \* quota headers of the 200 that safe_request returned on
    attempts,            \* requests.get calls of the current safe_request
    lastRetryAfter,      \* Retry-After header of the latest response
    slept,               \* duration of the latest time.sleep of safe_request
    chunkLog,            \* batches handed to table.upsert, one per chunk
    tries,               \* table.upsert calls for the current chunk
    upsertCalls,         \* table.upsert calls of the current safe_upsert
    failed,              \* some table.upsert of the current safe_upsert raised
    dropped              \* start offsets of the chunks given up on

storev == <<progress, movies>>
quotav == <<remaining_requests, daily_limit>>
pairv == <<current_year, current_region, current_page, year, region, page>>
pagev == <<results, total_pages, idx, records_to_upsert, okItems>>
mainv == <<pairv, pagev>>
reqv == <<url, retries, ret>>
upv == <<records, batch_size, start, attempt, caller>>
runv == <<ck0, firstList, seenExhausted>>
reqobs == <<attempts, lastRetryAfter, slept, hdrs>>
sweepobs == <<visited, enriched, lostIds>>
upobs == <<chunkLog, tries, upsertCalls, failed, dropped>>

vars == <<progress, movies, remaining_requests, daily_limit, pc,
          current_year, current_region, current_page, year, region, page,
          results, total_pages, idx, records_to_upsert, okItems,
          url, retries, ret,
          records, batch_size, start, attempt, caller,
          ck0, firstList, seenExhausted, committed, visited, enriched, lostIds,
          lastOp,
          attempts, lastRetryAfter, slept, hdrs,
          chunkLog, tries, upsertCalls, failed, dropped>>

----------------------------------------------------------------------------
(* Payloads and headers the environment can answer with *)
NoPayload == [ok |-> FALSE, has_results |-> FALSE, results |-> <<>>, id |-> 0]

\* item sequences of a listing page: the first n movies of the catalog
Listings == {[i \in 1..n |-> i] : n \in 0..MaxItems}

\* A listing payload, with or without the results field.  Its total_pages
\* field is not part of the record: main reads it once, after the page is
\* persisted, and the environment's choice of it is drawn at that read.
ListingPayloads ==
    {[ok |-> TRUE, has_results |-> TRUE, results |-> r, id |-> 0] :
        r \in Listings}
    \cup {[ok |-> TRUE, has_results |-> FALSE, results |-> <<>>, id |-> 0]}

\* the total_pages field of a listing payload: absent, or a page count
TotalPagesFields == {None} \cup {Some(n) : n \in 1..MaxPages}

DetailPayload(m) ==
    [ok |-> TRUE, has_results |-> FALSE, results |-> <<>>, id |-> m]

NoHeaders == [remaining |-> None, limit |-> None]

\* The quota headers of a 200 answer in the sweep.  X-RateLimit-Remaining is
\* absent, at the threshold 1, or above it; TMDb sends X-RateLimit-Limit
\* along with it.
QuotaHeaders ==
    {[remaining |-> None, limit |-> None],
     [remaining |-> Some(1), limit |-> Some(40)],
     [remaining |-> Some(2), limit |-> Some(40)]}

\* The quota headers of a 200 answer to a direct safe_request call: each
\* header present or not, on its own.
AnyQuotaHeaders ==
    {[remaining |-> r, limit |-> l] :
        r \in {None, Some(1), Some(2)}, l \in {None, Some(40)}}
RetryAfterHeaders == {None, Some(3)}

Progress(y, r, p) == [last_year |-> y, region |-> r, last_page |-> p]

----------------------------------------------------------------------------
(* Helpers translated from the code *)

\* (variant: the threshold off by one)
ExhaustedBelowOne(rem) == rem # None /\ Val(rem) < 1

\* main: "remaining_requests is not None and remaining_requests <= 1"
Exhausted(rem) == rem # None /\ Val(rem) <= 1

\* (variant: an absent header clears the value)
CaptureOrClear(old, h) == h

\* safe_request: a quota global after a 200 whose header is h
Capture(old, h) == IF h # None THEN h ELSE old

\* (variant: the range stops one year early)
InRangeShort(y) == y < END_YEAR - 1

\* (variant: the sentinel year counts as in range)
InRangeUpToSentinel(y) == y <= SENTINEL_YEAR

\* main: y is a year of range(current_year, 2024)
InRange(y) == y < END_YEAR

\* (variant: the page before, as at the top of the while loop)
MidPageCheckpointBefore(p) == p - 1

\* main: the page saved when the quota check inside the item loop fires
MidPageCheckpoint(p) == p

\* main: the page saved when the quota check before a listing call fires
ListCheckpoint(p) == p - 1

\* (variant: current_page is left as loaded)
ResetPageKept(cp) == cp

\* main: "current_page = 0" once a region is finished
ResetPage(cp) == 0

\* main: start_page of a (year, region) pair
StartPage(y, r, cy, cr, cp) == IF y = cy /\ r = cr THEN cp + 1 ELSE 1

\* main: data.get("total_pages", 1)
TotalPages(f) == IF f = None THEN 1 ELSE Val(f)

\* (variant: the last page is not recognised until it is passed)
LastPagePassed(p, t) == p > t

\* main: "if page >= data.get('total_pages', 1): break"
LastPage(p, t) == p >= t

\* (variant: one attempt too many)
KeepTryingOneMore(n) == n <= MAX_RETRIES

\* safe_request: the loop condition
KeepTrying(n) == n < MAX_RETRIES

\* (variant: the fixed delay is added to the server's)
RetryWaitAdded(h) == IF h = None THEN RETRY_DELAY ELSE RETRY_DELAY + Val(h)

\* safe_request: the sleep after a 429, from the Retry-After header
RetryWait(h) == IF h = None THEN RETRY_DELAY ELSE Val(h)

\* (variant: a record is built from a falsy payload too)
extract_dataKeepsAbsent(movie) == Some([tmdb_id |-> movie.id])

\* (variant: the test for a falsy payload is inverted)
extract_dataInverted(movie) ==
    IF movie.ok THEN None ELSE Some([tmdb_id |-> movie.id])

\* extract_data: None for a falsy payload, else the record keyed by tmdb_id
extract_data(movie) == IF ~movie.ok THEN None ELSE Some([tmdb_id |-> movie.id])

\* (variant: the slice runs one record into the next chunk)
SliceOverlapping(recs, s, b) == SubSeq(recs, s + 1, Min(s + b + 1, Len(recs)))

\* safe_upsert: records[start:start + batch_size]
Slice(recs, s, b) == SubSeq(recs, s + 1, Min(s + b, Len(recs)))

\* safe_upsert: the loop condition of one chunk
KeepUpserting(a) == a < MAX_RETRIES

\* (variant: the counter is carried over from the chunk before)
CarriedAttempt(a) == a

\* safe_upsert: "attempt = 0" at the head of a chunk
FreshAttempt(a) == 0

\* the statement reached when safe_request returns
Returned(u) ==
    IF caller = "request" THEN "request_done"
    ELSE IF u = "list" THEN "list_ret" ELSE "detail_ret"

----------------------------------------------------------------------------
(* Initial states *)

IdleRequest ==
    /\ url = "none" /\ retries = 0 /\ ret = NoPayload
    /\ attempts = 0 /\ lastRetryAfter = None /\ slept = 0 /\ hdrs = NoHeaders

IdleUpsert ==
    /\ start = 0 /\ attempt = 0
    /\ chunkLog = <<>> /\ tries = 0 /\ upsertCalls = 0 /\ failed = FALSE
    /\ dropped = {}

IdleMain ==
    /\ current_year = 0 /\ current_region = "US" /\ current_page = 0
    /\ year = 0 /\ region = "US" /\ page = 0
    /\ results = <<>> /\ total_pages = 0 /\ idx = 0 /\ records_to_upsert = <<>>
    /\ okItems = <<>>
    /\ remaining_requests = None /\ daily_limit = None
    /\ ck0 = Progress(0, "US", 0) /\ firstList = None
    /\ seenExhausted = FALSE /\ committed = {}
    /\ visited = {} /\ enriched = {} /\ lostIds = {} /\ lastOp = "none"

\* The row of the end-to-end scenario, (2001, "US", 3), moved to the last
\* year of the sweep: a US row that resumes past page 1.  The observations
\* enriched and lostIds are kept for the runs that start on this row.
ScenarioRow == Progress(END_YEAR - 1, "US", 3)

\* The fetch_progress rows an earlier run can leave behind: a page of a pair
\* (save_progress after a page or on a quota exit) or the end-of-sweep row.
\* The very first start, on an empty table, inserts (2000, "US", 0) and
\* sweeps from 2000; the rows here lie in the last YearSpan years of the
\* sweep.
StoredRows ==
    {Progress(y, r, p) :
        y \in StartYears, r \in {regions[i] : i \in 1..Len(regions)},
        p \in 0..1}
    \cup {Progress(SENTINEL_YEAR, "US", 0)}
    \cup {ScenarioRow}

\* The process starts on a stored fetch_progress row.
InitMain ==
    /\ pc = "start"
    /\ progress \in StoredRows
    /\ movies = {}
    /\ records = <<>> /\ batch_size = BATCH_SIZE /\ caller = "main"
    /\ IdleMain /\ IdleRequest /\ IdleUpsert

UnitRecords(n) == [i \in 1..n |-> [tmdb_id |-> i]]

UnitInputs ==
    {<<UnitRecords(n), b>> : n \in 0..MaxLen, b \in 1..MaxBatch}
    \cup {<<UnitRecords(2 * BATCH_SIZE + 20), BATCH_SIZE>>}

\* safe_upsert called on its own with a record list and a batch_size.
InitUnit ==
    /\ pc = "unit_call"
    /\ progress = Progress(END_YEAR - 1, "US", 0)
    /\ movies = {}
    /\ \E in \in UnitInputs : records = in[1] /\ batch_size = in[2]
    /\ caller = "unit"
    /\ IdleMain /\ IdleRequest /\ IdleUpsert

\* safe_request called on its own with a listing URL, whatever the quota
\* globals hold at that moment (not yet at the threshold).
InitRequest ==
    /\ pc = "request"
    /\ progress = Progress(END_YEAR - 1, "US", 0)
    /\ movies = {}
    /\ records = <<>> /\ batch_size = BATCH_SIZE /\ caller = "request"
    /\ current_year = 0 /\ current_region = "US" /\ current_page = 0
    /\ year = 0 /\ region = "US" /\ page = 0
    /\ results = <<>> /\ total_pages = 0 /\ idx = 0 /\ records_to_upsert = <<>>
    /\ okItems = <<>>
    /\ remaining_requests \in {None, Some(2)}
    /\ daily_limit \in {None, Some(40)}
    /\ ck0 = Progress(0, "US", 0) /\ firstList = None
    /\ seenExhausted = FALSE /\ committed = {}
    /\ visited = {} /\ enriched = {} /\ lostIds = {} /\ lastOp = "none"
    /\ url = "list" /\ retries = 0 /\ ret = NoPayload
    /\ attempts = 0 /\ lastRetryAfter = None /\ slept = 0 /\ hdrs = NoHeaders
    /\ IdleUpsert

Init == InitMain \/ InitUnit \/ InitRequest

----------------------------------------------------------------------------
(* main: start-up and the two for loops *)

ResetRequest ==
    /\ url' = "none" /\ retries' = 0 /\ ret' = NoPayload
    /\ attempts' = 0 /\ lastRetryAfter' = None /\ slept' = 0
    /\ hdrs' = NoHeaders

ResetUpsert ==
    /\ records' = <<>> /\ batch_size' = BATCH_SIZE
    /\ start' = 0 /\ attempt' = 0
    /\ chunkLog' = <<>> /\ tries' = 0 /\ upsertCalls' = 0 /\ failed' = FALSE
    /\ dropped' = {}

\* the item loop's locals are dead once the page is left
ClearPage ==
    results' = <<>> /\ idx' = 0 /\ records_to_upsert' = <<>> /\ okItems' = <<>>

\* Entry of the while loop for the pair (y, r): start_page is computed from
\* the current_* values cy, cr, cp.  The pages of the pair that the loaded
\* checkpoint ck names as done count as committed by the earlier runs.
EnterPair(y, r, cy, cr, cp, ck) ==
    /\ year' = y /\ region' = r
    /\ page' = StartPage(y, r, cy, cr, cp)
    /\ committed' = IF y = ck.last_year /\ r = ck.region
                    THEN 1..ck.last_page ELSE {}
    /\ pc' = "check_list"

\* get_progress and the entry of the year loop
Start ==
    /\ pc = "start"
    /\ current_year' = progress.last_year
    /\ current_region' = progress.region
    /\ current_page' = progress.last_page
    /\ ck0' = progress
    /\ lastOp' = "load"
    /\ IF InRange(progress.last_year)
       THEN EnterPair(progress.last_year, regions[1], progress.last_year,
                      progress.region, progress.last_page, progress)
       ELSE pc' = "finish" /\ UNCHANGED <<year, region, page, committed>>
    /\ UNCHANGED <<storev, quotav, pagev, reqv, upv, firstList, seenExhausted,
                   sweepobs, reqobs, upobs>>

\* A break out of the while loop: current_page = 0, then the next region,
\* the next year, or the end of the sweep.
Break ==
    /\ current_page' = ResetPage(current_page)
    /\ UNCHANGED <<current_year, current_region>>
    /\ ClearPage
    /\ IF RegionIndex(region) < Len(regions)
       THEN EnterPair(year, regions[RegionIndex(region) + 1],
                      current_year, current_region, ResetPage(current_page),
                      ck0)
       ELSE IF InRange(year + 1)
            THEN EnterPair(year + 1, regions[1], current_year, current_region,
                           ResetPage(current_page), ck0)
            ELSE pc' = "finish" /\ UNCHANGED <<year, region, page, committed>>

\* save_progress(supabase, 2025, "US", 0) after the loops
Finish ==
    /\ pc = "finish"
    /\ progress' = Progress(SENTINEL_YEAR, "US", 0)
    /\ lastOp' = "save"
    /\ pc' = "done"
    /\ UNCHANGED <<movies, quotav, mainv, reqv, upv, runv, committed,
                   sweepobs, reqobs, upobs>>

----------------------------------------------------------------------------
(* main: the listing step *)

CallRequest(u) ==
    /\ url' = u /\ retries' = 0 /\ ret' = NoPayload
    /\ attempts' = 0 /\ lastRetryAfter' = None /\ slept' = 0
    /\ hdrs' = NoHeaders
    /\ pc' = "request"

\* The quota check at the top of the while loop fires.
QuotaExitBeforeListing ==
    /\ pc = "check_list"
    /\ Exhausted(remaining_requests)
    /\ progress' = Progress(year, region, ListCheckpoint(page))
    /\ lastOp' = "save"
    /\ pc' = "exit"
    /\ UNCHANGED <<movies, quotav, mainv, reqv, upv, runv, committed,
                   sweepobs, reqobs, upobs>>

\* data = fetch_movies(year, region, page)
CallFetchMovies ==
    /\ pc = "check_list"
    /\ ~Exhausted(remaining_requests)
    /\ CallRequest("list")
    /\ firstList' = IF /\ firstList = None
                       /\ year = ck0.last_year /\ region = ck0.region
                    THEN Some(page) ELSE firstList
    /\ visited' = visited \cup {<<year, region>>}
    /\ UNCHANGED <<storev, quotav, mainv, upv, ck0, seenExhausted, committed,
                   enriched, lostIds, lastOp, upobs>>

\* "if not data or 'results' not in data: break"
ListingAbsent ==
    /\ pc = "list_ret"
    /\ ~ret.ok \/ ~ret.has_results
    /\ Break
    /\ total_pages' = 0
    /\ ResetRequest
    /\ UNCHANGED <<storev, quotav, upv, runv, sweepobs, lastOp, upobs>>

\* "if not results: break"
ListingEmpty ==
    /\ pc = "list_ret"
    /\ ret.ok /\ ret.has_results /\ ret.results = <<>>
    /\ Break
    /\ total_pages' = 0
    /\ ResetRequest
    /\ UNCHANGED <<storev, quotav, upv, runv, sweepobs, lastOp, upobs>>

\* a listing with items: records_to_upsert = [] and the for loop starts
ListingPage ==
    /\ pc = "list_ret"
    /\ ret.ok /\ ret.has_results /\ ret.results # <<>>
    /\ results' = ret.results
    /\ total_pages' = 0
    /\ records_to_upsert' = <<>>
    /\ okItems' = <<>>
    /\ idx' = 1
    /\ pc' = "check_detail"
    /\ ResetRequest
    /\ UNCHANGED <<storev, quotav, pairv, upv, runv, committed, sweepobs,
                   lastOp, upobs>>

----------------------------------------------------------------------------
(* safe_request *)

\* a failed attempt that answered header h: the sleep of wait seconds and
\* "retries += 1", then the loop goes round again or None is returned
RetryOrGiveUp(wait, h) ==
    /\ retries' = retries + 1
    /\ attempts' = attempts + 1
    /\ slept' = wait
    /\ lastRetryAfter' = h
    /\ hdrs' = NoHeaders
    /\ lastOp' = "get"
    /\ IF KeepTrying(retries + 1)
       THEN pc' = "request" /\ ret' = ret
       ELSE pc' = Returned(url) /\ ret' = NoPayload

Bodies == IF url = "list" THEN ListingPayloads
          ELSE {DetailPayload(results[idx])}

Headers == IF caller = "request" THEN AnyQuotaHeaders ELSE QuotaHeaders

\* requests.get answers 200 with quota headers hdr and body body: the headers
\* are captured, the body returned; the locals of safe_request are dead from
\* here on
Answer200(hdr, body) ==
    /\ remaining_requests' = Capture(remaining_requests, hdr.remaining)
    /\ daily_limit' = Capture(daily_limit, hdr.limit)
    /\ hdrs' = hdr
    /\ ret' = body
    /\ seenExhausted' = (seenExhausted \/ (/\ hdr.remaining # None
                                           /\ Val(hdr.remaining) <= 1))
    /\ pc' = Returned(url)
    /\ retries' = 0
    /\ attempts' = 0
    /\ lastRetryAfter' = None
    /\ slept' = 0
    /\ lastOp' = "get"
    /\ UNCHANGED <<storev, mainv, url, upv, ck0, firstList, committed, sweepobs,
                   upobs>>

Http200 ==
    /\ pc = "request"
    /\ \E hdr \in Headers, body \in Bodies : Answer200(hdr, body)

\* requests.get answers 429: sleep for Retry-After (default RETRY_DELAY)
Http429 ==
    /\ pc = "request"
    /\ \E h \in RetryAfterHeaders : RetryOrGiveUp(RetryWait(h), h)
    /\ UNCHANGED <<storev, quotav, mainv, url, upv, runv, committed, sweepobs,
                   upobs>>

\* requests.get answers another status or raises RequestException
HttpError ==
    /\ pc = "request"
    /\ RetryOrGiveUp(RETRY_DELAY, None)
    /\ UNCHANGED <<storev, quotav, mainv, url, upv, runv, committed, sweepobs,
                   upobs>>

----------------------------------------------------------------------------
(* main: the details loop *)

\* (variant: the return without the save_progress call)
QuotaExitMidPageNoSave ==
    /\ pc = "check_detail"
    /\ idx <= Len(results)
    /\ Exhausted(remaining_requests)
    /\ pc' = "exit"
    /\ UNCHANGED <<storev, quotav, mainv, reqv, upv, runv, committed,
                   sweepobs, lastOp, reqobs, upobs>>

\* The quota check before a details request fires.
QuotaExitMidPage ==
    /\ pc = "check_detail"
    /\ idx <= Len(results)
    /\ Exhausted(remaining_requests)
    /\ progress' = Progress(year, region, MidPageCheckpoint(page))
    /\ lastOp' = "save"
    /\ pc' = "exit"
    /\ UNCHANGED <<movies, quotav, mainv, reqv, upv, runv, committed,
                   sweepobs, reqobs, upobs>>

\* details = fetch_movie_details(movie["id"])
CallFetchDetails ==
    /\ pc = "check_detail"
    /\ idx <= Len(results)
    /\ ~Exhausted(remaining_requests)
    /\ CallRequest("detail")
    /\ UNCHANGED <<storev, quotav, mainv, upv, runv, committed, sweepobs,
                   lastOp, upobs>>

\* record = extract_data(details); appended when not None
DetailReturned ==
    /\ pc = "detail_ret"
    /\ LET record == extract_data(ret)
       IN  records_to_upsert' = IF record # None
                                THEN Append(records_to_upsert, Val(record))
                                ELSE records_to_upsert
    /\ okItems' = IF ret.ok THEN Append(okItems, results[idx]) ELSE okItems
    /\ enriched' = IF ret.ok /\ ck0 = ScenarioRow
                   THEN enriched \cup {results[idx]} ELSE enriched
    /\ idx' = idx + 1
    /\ pc' = "check_detail"
    /\ ResetRequest
    /\ UNCHANGED <<storev, quotav, pairv, results, total_pages, upv, runv,
                   committed, visited, lostIds, lastOp, upobs>>

----------------------------------------------------------------------------
(* safe_upsert *)

\* the statement reached when safe_upsert returns; a page of main whose
\* persist step is over counts as committed
UpsertReturn(who) ==
    IF who = "main"
    THEN pc' = "save_page" /\ committed' = committed \cup {page}
    ELSE pc' = "unit_done" /\ committed' = committed

\* entry of safe_upsert(table, recs, b); range(0, total, b) is empty when
\* recs is
EnterUpsert(recs, b, who) ==
    /\ records' = recs /\ batch_size' = b /\ caller' = who
    /\ start' = 0 /\ attempt' = FreshAttempt(attempt)
    /\ chunkLog' = <<>> /\ tries' = 0 /\ upsertCalls' = 0 /\ failed' = FALSE
    /\ dropped' = {}
    /\ IF Len(recs) > 0
       THEN pc' = "upsert" /\ committed' = committed
       ELSE UpsertReturn(who)

\* the for loop moves to the next chunk with attempt = 0, or ends
NextChunk ==
    /\ start' = start + batch_size
    /\ attempt' = FreshAttempt(attempt)
    /\ tries' = 0
    /\ IF start + batch_size < Len(records)
       THEN pc' = "upsert" /\ committed' = committed
       ELSE UpsertReturn(caller)

\* what every table.upsert call records
LogUpsert ==
    /\ chunkLog' = IF tries = 0
                   THEN Append(chunkLog, Slice(records, start, batch_size))
                   ELSE chunkLog
    /\ upsertCalls' = upsertCalls + 1
    /\ lastOp' = "upsert"

\* table.upsert(batch).execute() succeeds: break
UpsertOk ==
    /\ pc = "upsert"
    /\ LET batch == Slice(records, start, batch_size)
       IN  movies' = movies \cup {batch[i].tmdb_id : i \in 1..Len(batch)}
    /\ LogUpsert
    /\ NextChunk
    /\ UNCHANGED <<progress, quotav, mainv, reqv, records, batch_size, caller,
                   runv, sweepobs, reqobs, failed, dropped>>

\* table.upsert(batch).execute() raises: attempt += 1, sleep, and the
\* while-else gives the chunk up once attempt reaches retries
UpsertRaises ==
    /\ pc = "upsert"
    /\ LogUpsert
    /\ failed' = TRUE
    /\ IF KeepUpserting(attempt + 1)
       THEN /\ attempt' = attempt + 1
            /\ tries' = tries + 1
            /\ pc' = "upsert"
            /\ UNCHANGED <<start, dropped, committed>>
       ELSE /\ dropped' = dropped \cup {start}
            /\ NextChunk
    /\ lostIds' = IF ~KeepUpserting(attempt + 1) /\ ck0 = ScenarioRow
                  THEN LET batch == Slice(records, start, batch_size)
                       IN  lostIds \cup {batch[i].tmdb_id : i \in 1..Len(batch)}
                  ELSE lostIds
    /\ UNCHANGED <<storev, quotav, mainv, reqv, records, batch_size, caller,
                   runv, visited, enriched, reqobs>>

\* a direct call safe_upsert(table, records, batch_size)
UnitCall ==
    /\ pc = "unit_call"
    /\ EnterUpsert(records, batch_size, "unit")
    /\ UNCHANGED <<storev, quotav, mainv, reqv, runv, sweepobs, lastOp, reqobs>>

----------------------------------------------------------------------------
(* main: persisting a page and advancing *)

\* the for loop over results is over: "if records_to_upsert: safe_upsert(...)"
PersistPage ==
    /\ pc = "check_detail"
    /\ idx > Len(results)
    /\ IF records_to_upsert # <<>>
       THEN EnterUpsert(records_to_upsert, BATCH_SIZE, "main")
       ELSE UpsertReturn("main") /\ UNCHANGED <<upv, upobs>>
    /\ UNCHANGED <<storev, quotav, mainv, reqv, runv, sweepobs, lastOp, reqobs>>

\* save_progress(year, region, page), then the last-page test and page += 1
SavePage ==
    /\ pc = "save_page"
    /\ progress' = Progress(year, region, page)
    /\ \E f \in TotalPagesFields :
         /\ total_pages' = TotalPages(f)
         /\ IF LastPage(page, TotalPages(f))
            THEN Break
            ELSE /\ page' = page + 1
                 /\ pc' = "check_list"
                 /\ UNCHANGED <<current_year, current_region, current_page,
                                year, region, committed>>
                 /\ ClearPage
    /\ ResetUpsert
    /\ lastOp' = "save"
    /\ UNCHANGED <<movies, quotav, reqv, caller, runv, sweepobs, reqobs>>

Next ==
    \/ Start
    \/ QuotaExitBeforeListing
    \/ CallFetchMovies
    \/ ListingAbsent
    \/ ListingEmpty
    \/ ListingPage
    \/ Http200
    \/ Http429
    \/ HttpError
    \/ QuotaExitMidPage
    \/ CallFetchDetails
    \/ DetailReturned
    \/ PersistPage
    \/ UpsertOk
    \/ UpsertRaises
    \/ UnitCall
    \/ SavePage
    \/ Finish

Spec == Init /\ [][Next]_vars

----------------------------------------------------------------------------
(* Reruns under a fixed quota budget, with no failing call *)

\* calls TMDb allows per run: enough for a listing and the details of a full
\* page, and two more
Budget == MaxItems + 3

\* the quota headers of the next 200 answer of a run: one call fewer left
BudgetHeaders(rem) ==
    [remaining |-> Some(IF rem = None THEN Budget - 1 ELSE Val(rem) - 1),
     limit |-> Some(Budget)]

\* requests.get answers 200 at once, counting the call against the budget;
\* a listing answer has its results field
Http200Budget ==
    /\ pc = "request"
    /\ \E body \in {b \in Bodies : url = "list" => b.has_results} :
         Answer200(BudgetHeaders(remaining_requests), body)

\* The process is started again after a quota exit: the globals and locals
\* are those of a new process, the two tables are kept.
Restart ==
    /\ pc = "exit"
    /\ pc' = "start"
    /\ UNCHANGED <<storev, upv>>
    /\ current_year' = 0 /\ current_region' = "US" /\ current_page' = 0
    /\ year' = 0 /\ region' = "US" /\ page' = 0
    /\ total_pages' = 0
    /\ ClearPage
    /\ remaining_requests' = None /\ daily_limit' = None
    /\ ck0' = Progress(0, "US", 0) /\ firstList' = None
    /\ seenExhausted' = FALSE /\ committed' = {}
    /\ visited' = {} /\ enriched' = {} /\ lostIds' = {} /\ lastOp' = "none"
    /\ ResetRequest
    /\ UNCHANGED upobs

NextRestart ==
    \/ Start
    \/ QuotaExitBeforeListing
    \/ CallFetchMovies
    \/ ListingEmpty
    \/ ListingPage
    \/ Http200Budget
    \/ QuotaExitMidPage
    \/ CallFetchDetails
    \/ DetailReturned
    \/ PersistPage
    \/ UpsertOk
    \/ SavePage
    \/ Finish
    \/ Restart

\* main is run again after every quota exit, and each process runs on.
RestartSpec == InitMain /\ [][NextRestart]_vars /\ WF_vars(NextRestart)

\* The process is never suspended for good: every call it makes returns and
\* every sleep ends, so a step that can be taken is taken.
FairSpec == Spec /\ WF_vars(Next)

----------------------------------------------------------------------------
(* Properties *)

Ceil(n, b) == (n + b - 1) \div b

RECURSIVE Flatten(_)
Flatten(ss) == IF ss = <<>> THEN <<>> ELSE Head(ss) \o Flatten(Tail(ss))

\* C1: the first fetch_movies call for the pair (Y, R) of the loaded
\* checkpoint (Y, R, P) targets page P + 1.
ResumePage == firstList # None => Val(firstList) = ck0.last_page + 1

\* C2: no listing or detail request is issued for a pair that precedes the
\* loaded checkpoint's pair in the traversal order, and the stored
\* checkpoint never names such a pair.
ResumeSkip ==
    /\ pc = "request" => ~PairBefore(year, region, ck0.last_year, ck0.region)
    /\ pc # "start" /\ caller = "main" =>
         ~PairBefore(progress.last_year, progress.region,
                     ck0.last_year, ck0.region)

QuotaExitCheckpoint ==
    pc = "exit" => progress.last_page = 0 \/ progress.last_page \in committed

\* C5: every page at or before the stored checkpoint of the pair being swept
\* is fully committed.
CheckpointInvariant ==
    pc # "start" /\ progress.last_year = year /\ progress.region = region =>
        \A p \in 1..progress.last_page : p \in committed

\* C6: every HTTP attempt of a safe_request call is at most the
\* MAX_RETRIES-th; None is returned only after exactly MAX_RETRIES failed
\* attempts; a 200 returns the payload at once.
RetryBound ==
    [][/\ pc = "request" =>
            /\ attempts < MAX_RETRIES
            /\ pc' = "request" => attempts' = attempts + 1 /\ url' = url
            /\ pc' # "request" =>
                 /\ pc' = Returned(url)
                 /\ ret'.ok \/ (attempts' = MAX_RETRIES /\ ret' = NoPayload)
      ]_vars

RetryBoundWitness ==
    /\ pc \in {"list_ret", "detail_ret"}
    /\ ret = NoPayload
    /\ attempts = MAX_RETRIES

\* C7: after a failed attempt the sleep is the Retry-After value of a 429
\* that carries one, and RETRY_DELAY in every other case.
RateLimitWait ==
    attempts > 0 =>
        slept = IF lastRetryAfter # None THEN Val(lastRetryAfter)
                ELSE RETRY_DELAY

RateLimitWaitWitness ==
    /\ pc = "request"
    /\ lastRetryAfter = Some(3)
    /\ slept = 3

\* C8: when no upsert raises, safe_upsert issues ceil(n / b) upsert calls,
\* every chunk has at most b records and all but the last exactly b, and
\* the chunks in call order concatenate to the record list.
BatchChunking ==
    pc \in {"unit_done", "save_page"} /\ ~failed =>
        LET n == Len(records)
            k == Len(chunkLog)
        IN  /\ upsertCalls = Ceil(n, batch_size)
            /\ k = upsertCalls
            /\ \A i \in 1..k :
                 /\ Len(chunkLog[i]) <= batch_size
                 /\ i < k => Len(chunkLog[i]) = batch_size
            /\ Flatten(chunkLog) = records

BatchChunkingWitness ==
    /\ pc = "unit_done"
    /\ ~failed
    /\ Len(records) = 2 * BATCH_SIZE + 20
    /\ batch_size = BATCH_SIZE
    /\ [i \in 1..Len(chunkLog) |-> Len(chunkLog[i])] = <<50, 50, 20>>

\* The state part of C9: the per-chunk counter and budget, and what
\* safe_upsert has done by the time it returns.
BatchIsolationState ==
    /\ pc = "upsert" => tries < MAX_RETRIES /\ attempt = tries
    /\ pc \in {"unit_done", "save_page"} =>
         LET k == Ceil(Len(records), batch_size)
             d == Cardinality(dropped)
         IN  /\ Len(chunkLog) = k
             /\ upsertCalls >= MAX_RETRIES * d + (k - d)
             /\ upsertCalls <= MAX_RETRIES * k
             /\ \A i \in 1..k :
                  \/ (i - 1) * batch_size \in dropped
                  \/ \A j \in 1..Len(chunkLog[i]) :
                       chunkLog[i][j].tmdb_id \in movies
    /\ caller = "main" /\ dropped # {} => pc \in {"upsert", "save_page"}

\* The step part of C9: from the statement after safe_upsert, main writes
\* the page's checkpoint and goes on with the sweep.
BatchIsolationStep ==
    pc = "save_page" =>
        /\ progress' = Progress(year, region, page)
        /\ pc' \in {"check_list", "finish"}

\* C9: each chunk of safe_upsert has its own attempt counter and at most
\* MAX_RETRIES upsert calls; a chunk that fails them all is dropped, the
\* later chunks are still attempted, safe_upsert returns, and main writes the
\* page's checkpoint and goes on.
BatchIsolation == []BatchIsolationState /\ [][BatchIsolationStep]_vars

BatchIsolationWitness ==
    /\ pc = "unit_done"
    /\ 0 \in dropped
    /\ Len(chunkLog) > 1
    /\ batch_size \notin dropped
    /\ movies # {}

\* C10: once main has read, after page p, a total_pages with p >= total_pages,
\* or has received an empty listing, it does not come back to the listing
\* step of that pair: it leaves the pair, and pairs are only left forwards.
PaginationTerminal ==
    [][/\ pc = "save_page" /\ page >= total_pages' =>
            ~(pc' = "check_list" /\ year' = year /\ region' = region)
       /\ pc = "list_ret" /\ ret.ok /\ ret.has_results /\ ret.results = <<>> =>
            ~(pc' = "check_list" /\ year' = year /\ region' = region)
       /\ (year' # year \/ region' # region) =>
            PairBefore(year, region, year', region')]_vars

\* page 1 reported total_pages = 1 and main stands at page 1 of the next pair
PaginationTerminalWitness ==
    /\ pc = "check_list"
    /\ total_pages = 1
    /\ progress.last_page = 1
    /\ page = 1
    /\ PairBefore(progress.last_year, progress.region, year, region)

\* the pairs of the two for loops from year y0 on
AllPairs(y0) ==
    {<<y, regions[i]>> : y \in y0..(END_YEAR - 1), i \in 1..Len(regions)}

DoneSentinelState ==
    /\ pc = "done" =>
         /\ progress = Progress(SENTINEL_YEAR, "US", 0)
         /\ lastOp = "save"
         /\ visited = AllPairs(ck0.last_year)
    /\ pc = "exit" => progress.last_year # SENTINEL_YEAR
    /\ lastOp = "save" /\ progress.last_year = SENTINEL_YEAR => pc = "done"

\* C11: a run of main in which remaining_requests <= 1 is never observed
\* reaches Done; at Done fetch_movies has been called for every pair from the
\* loaded year on and the last write is the sentinel row; the sentinel is
\* written by no other path, and never by a run that ends on a quota check.
DoneAndSentinel ==
    /\ []DoneSentinelState
    /\ <>(pc = "done" \/ seenExhausted \/ caller # "main")

DoneAndSentinelWitness ==
    /\ pc = "done"
    /\ ~seenExhausted
    /\ remaining_requests = Some(2)
    /\ ck0.last_year = END_YEAR - YearSpan
    /\ visited = AllPairs(END_YEAR - YearSpan)

\* C12 as stated: at Done, in a run from the scenario's row that never saw
\* remaining_requests <= 1, every id whose details call answered is in the
\* movies table (which holds one row per tmdb_id).
Completeness ==
    pc = "done" /\ ck0 = ScenarioRow /\ ~seenExhausted =>
        enriched \subseteq movies

\* C12 amended: ... every such id is in the movies table unless safe_upsert
\* gave up on a chunk that held its record.
CompletenessUnlessDropped ==
    pc = "done" /\ ck0 = ScenarioRow /\ ~seenExhausted =>
        \A id \in enriched : id \in movies \/ id \in lostIds

CompletenessWitness ==
    /\ pc = "done" /\ ck0 = ScenarioRow /\ ~seenExhausted
    /\ enriched = Ids
    /\ 1 \in movies
    /\ lostIds # {}
    /\ enriched \ movies # {}

\* C13: main stops only at Done, with the sweep complete, or on a quota
\* check that fired; in the second case remaining_requests <= 1 is known, the
\* latest outside operation is the save_progress of the pair being swept,
\* and no request or upsert came after it.
EarlyExitCheckpoints ==
    /\ pc = "exit" =>
         /\ lastOp = "save"
         /\ remaining_requests # None /\ Val(remaining_requests) <= 1
         /\ progress.last_year = year /\ progress.region = region
    /\ pc = "done" => visited = AllPairs(ck0.last_year) /\ lastOp = "save"
    /\ caller = "main" /\ pc \notin {"done", "exit"} => ENABLED Next

EarlyExitCheckpointsWitness ==
    /\ pc = "exit"
    /\ lastOp = "save"
    /\ idx > 1
    /\ records_to_upsert # <<>>

\* C14: when the quota check inside the item loop fires on page p of
\* (year, region), main saves (year, region, p), calls no upsert for the
\* records gathered so far and stops; when the check before the listing call
\* of page p fires, it saves (year, region, p - 1) and stops.
MidPageQuotaExit ==
    [][/\ (/\ pc = "check_detail" /\ idx <= Len(results)
           /\ remaining_requests # None /\ Val(remaining_requests) <= 1) =>
            /\ pc' = "exit"
            /\ progress' = Progress(year, region, page)
            /\ lastOp' = "save"
            /\ movies' = movies
            /\ upsertCalls' = 0 /\ chunkLog' = <<>>
       /\ (/\ pc = "check_list"
           /\ remaining_requests # None /\ Val(remaining_requests) <= 1) =>
            /\ pc' = "exit"
            /\ progress' = Progress(year, region, page - 1)
            /\ lastOp' = "save"
      ]_vars

MidPageQuotaExitWitness ==
    /\ pc = "exit"
    /\ progress = Progress(year, region, page)
    /\ records_to_upsert # <<>>
    /\ records_to_upsert[1].tmdb_id \notin movies
    /\ upsertCalls = 0

\* the pair after (y, r) in the order of the two for loops
NextPair(y, r) ==
    IF RegionIndex(r) < Len(regions)
    THEN <<y, regions[RegionIndex(r) + 1]>>
    ELSE <<y + 1, regions[1]>>

\* C15: when a listing call returns None or a payload without "results",
\* main makes no request, no upsert and no checkpoint write for that page and
\* goes to page 1 of the next pair (or to the end of the sweep after the last
\* pair); a pair is only ever left for the next one, so it is not listed
\* again.
AbsentListingEndsPair ==
    [][/\ (pc = "list_ret" /\ (~ret.ok \/ ~ret.has_results)) =>
            /\ progress' = progress /\ movies' = movies /\ lastOp' = lastOp
            /\ IF NextPair(year, region)[1] < END_YEAR
               THEN /\ pc' = "check_list"
                    /\ <<year', region'>> = NextPair(year, region)
                    /\ page' = 1
               ELSE pc' = "finish"
       /\ (pc # "start" /\ (year' # year \/ region' # region)) =>
            <<year', region'>> = NextPair(year, region)
      ]_vars

AbsentListingEndsPairWitness ==
    /\ pc = "list_ret"
    /\ ~ret.ok
    /\ attempts = MAX_RETRIES
    /\ region = "US"
    /\ page = 2

\* The state part of C16: the page's batch holds exactly the items whose
\* details call answered, in listing order, and that batch is what
\* safe_upsert was given and handed on chunk by chunk.
SkippableDetailState ==
    /\ (caller = "main" /\ results # <<>>) =>
         /\ [i \in 1..Len(records_to_upsert) |-> records_to_upsert[i].tmdb_id]
               = okItems
         /\ \A i \in 1..Len(okItems) :
              \E k \in 1..(idx - 1) :
                /\ results[k] = okItems[i]
                /\ \A j \in 1..(i - 1) :
                     \E l \in 1..(k - 1) : results[l] = okItems[j]
    /\ pc = "save_page" =>
         /\ idx = Len(results) + 1
         /\ records = records_to_upsert
         /\ Flatten(chunkLog) = records
         /\ dropped = {} =>
              \A i \in 1..Len(okItems) : okItems[i] \in movies

\* The step part of C16: a details call that returned None adds nothing and
\* the loop moves to the next item, which is quota-checked and fetched; the
\* page's checkpoint is written after the persist step.
SkippableDetailStep ==
    /\ pc = "detail_ret" =>
         /\ pc' = "check_detail" /\ idx' = idx + 1
         /\ ~ret.ok => records_to_upsert' = records_to_upsert
    /\ (/\ pc = "check_detail" /\ idx <= Len(results)
        /\ ~(remaining_requests # None /\ Val(remaining_requests) <= 1)) =>
         pc' = "request" /\ url' = "detail" /\ idx' = idx
    /\ pc = "save_page" => progress' = Progress(year, region, page)

\* C16: an item whose details call returns None contributes no record; the
\* remaining items are still quota-checked and fetched in listing order, the
\* records of the answered items are handed to the persist step in listing
\* order, and the page's checkpoint is written as for any other page.
SkippableDetail == []SkippableDetailState /\ [][SkippableDetailStep]_vars

SkippableDetailWitness ==
    /\ pc = "save_page"
    /\ results = <<1, 2>>
    /\ okItems = <<2>>
    /\ movies = {2}
    /\ progress.last_page = page - 1

QuotaFrameState ==
    /\ pc = "start" => remaining_requests = None /\ daily_limit = None
    /\ pc = "exit" => remaining_requests # None

QuotaFrameStep ==
    /\ remaining_requests' # remaining_requests =>
         /\ pc = "request" /\ pc' = Returned(url) /\ ret'.ok
         /\ hdrs'.remaining # None /\ remaining_requests' = hdrs'.remaining
    /\ daily_limit' # daily_limit =>
         /\ pc = "request" /\ pc' = Returned(url) /\ ret'.ok
         /\ hdrs'.limit # None /\ daily_limit' = hdrs'.limit
    /\ (pc = "request" /\ pc' # "request" /\ ret'.ok) =>
         /\ remaining_requests' = IF hdrs'.remaining = None
                                  THEN remaining_requests ELSE hdrs'.remaining
         /\ daily_limit' = IF hdrs'.limit = None
                           THEN daily_limit ELSE hdrs'.limit
    /\ (remaining_requests = None /\ pc = "check_list") =>
         pc' = "request" /\ url' = "list"
    /\ (remaining_requests = None /\ pc = "check_detail"
                                  /\ idx <= Len(results)) =>
         pc' = "request" /\ url' = "detail"

\* C17: remaining_requests and daily_limit are None when the process starts;
\* each changes only when safe_request returns on a 200 that carries its
\* header, to that header's value; every other step (429, other statuses,
\* errors, upserts, checkpoint writes, a 200 without the header) leaves it
\* alone; while remaining_requests is None both quota checks let the call
\* through, and no run ends on a quota check.
QuotaFrame == []QuotaFrameState /\ [][QuotaFrameStep]_vars

QuotaFrameWitness ==
    /\ pc = "request_done"
    /\ ret.ok
    /\ hdrs = [remaining |-> None, limit |-> Some(40)]
    /\ remaining_requests = Some(2)
    /\ daily_limit = Some(40)

\* C18: a run of main that loads the sentinel row calls neither fetch_movies
\* nor fetch_movie_details nor table.upsert, and the stored row is the
\* sentinel throughout and when the run ends.
RerunNoOp ==
    (/\ caller = "main"
     /\ (IF pc = "start" THEN progress ELSE ck0)
           = Progress(SENTINEL_YEAR, "US", 0)) =>
        /\ pc \in {"start", "finish", "done"}
        /\ progress = Progress(SENTINEL_YEAR, "US", 0)
        /\ visited = {} /\ attempts = 0 /\ upsertCalls = 0 /\ movies = {}
        /\ lastOp \in {"none", "load", "save"}

RerunNoOpWitness ==
    /\ pc = "done"
    /\ ck0 = Progress(SENTINEL_YEAR, "US", 0)
    /\ progress = ck0
    /\ lastOp = "save"

\* checkpoint a is at or before checkpoint b in the traversal order
CkLeq(a, b) ==
    \/ a.last_year < b.last_year
    \/ /\ a.last_year = b.last_year
       /\ \/ RegionIndex(a.region) < RegionIndex(b.region)
          \/ a.region = b.region /\ a.last_page <= b.last_page

\* C19: the stored checkpoint never moves backward in the traversal order
\* (year, then region, then page): every write is at or after the row it
\* replaces, the first of them the row loaded at startup.
CheckpointMonotone == [][CkLeq(progress, progress')]_vars

\* C20: with a rerun after every quota exit, the same budget for every run
\* and no failing call, some run ends in Done.
RestartProgress == <>(pc = "done")

====
